---- MODULE Spec2Model ----
(***************************************************************************)
(* Client-side state machines of the Level visualizer:                     *)
(*   - the three-waveform Waveform component and its parent page           *)
(*     (frontend/src/components/Waveform.tsx, the visualize page),         *)
(*   - the terrain view: TerrainMap, useDrag and the ClusterList actions   *)
(*     of the terrain visualize page.                                      *)
(* Weights of waveform peaks are counted in hundredths (toFixed(2));       *)
(* hill heights are counted in steps of 0.05, the height change of one     *)
(* pixel of pointer travel; a hill weight is the exact quotient n/d.       *)
(***************************************************************************)
EXTENDS Integers, Sequences, FiniteSets, TLC

VARIABLES
  \* ---- three-waveform view ----
  mode,             \* parent: 'count' | 'weight'
  baseData,         \* parent: base waveform (sampleCount, count, weight per peak)
  userData,         \* parent: user waveform
  aiData,           \* parent: AI waveform
  localUserData,    \* Waveform: copy of userData synced by effect
  tempUserData,     \* Waveform: << >> (null) or <<waveform>> while dragging
  draggingPeak,     \* Waveform: peak id or NoPeak
  hasDragged,       \* Waveform: a mouse-move happened since mouse-down
  inflight,         \* adjust requests sent and not yet completed
  srvUser,          \* the server's user waveform
  sends,            \* number of releases that sent requests (bounded by MaxSends)
  ev,               \* the last event handled by the waveform view
  pressed,          \* NoPeak: the button is up; a peak: the button went down on it and
                    \* is held; LeftSvg: the button is held and the pointer has left
  \* ---- terrain view ----
  hills,            \* terrainData.hills: height and weight per hill
  heightData,       \* terrainData.heightData: the height of each grid cell
  draggingHillId,   \* useDrag: hill id or NoHill
  dragStateRef,     \* useDrag: << >> or <<[hillId, startY, originalHeight]>>
  dragEndRef,       \* TerrainMap: << >> or <<[hillId, newHeight]>>
  buttonDown,       \* the mouse button is held
  pendingAdjust,    \* adjustWeights requests awaited by handleMouseUp
  tev,              \* the last event handled by the terrain view
  \* ---- mode-aware single-dataset Waveform ----
  data,             \* the peaks' optional fields
  rendered,         \* the last read of the peaks' values
  \* ---- useDataset ----
  terrain,          \* << >> (null) or <<terrain data>>
  status,           \* << >> (null) or <<[status, message]>>
  loading,
  error,            \* << >> (null) or <<message>>
  isMounted,        \* the effect's isMounted flag; the interval runs while it is TRUE
  awaitingStatus,   \* pollStatus calls awaiting getStatus
  awaitingTerrain,  \* pollStatus calls awaiting getTerrain
  srvStatus,        \* the backend's status record of the dataset
  pollCount,        \* pollStatus calls so far (bounded by MaxPolls)
  dev,              \* the last event of the hook
  \* ---- backend calculations ----
  amplitudes,       \* the magnitudes given to the Gini computation
  gini,             \* << >> (not computed) or <<outcome>>
  positions,        \* the projected scalars of the cluster centers, by cluster id
  normalized,       \* << >> (not computed) or <<sequence of positions>>
  \* ---- fetchWithTimeout ----
  calls,            \* per call: position, timer, controller.signal.aborted, result
  \* ---- MetricsPanel tab and ChatBox ----
  activeTab,        \* MetricsPanel: "info" | "chat"; the ChatBox is mounted on "chat"
  messages,         \* ChatBox: the message list (as last displayed, once unmounted)
  input,            \* ChatBox: the text of the input field
  chatLoading,      \* ChatBox: loading
  chatStorage,      \* localStorage item chat-history-<datasetId>: << >> or <<text>>
  chatRequests,     \* chat requests in flight: TRUE while the ChatBox that sent it is mounted
  submits,          \* accepted submissions so far (bounded by MaxSubmits)
  cev,              \* the last event of the chat
  \* adjust requests and responses in flight, with the order they were issued in
  adjustRequests,   \* requests the backend has not handled yet, oldest first
  adjustResponses,  \* responses the client has not received yet
  issued,           \* number of adjust requests issued
  latestResponse    \* << >>, or <<the response to the most recently issued request>>

varsW == <<mode, baseData, userData, aiData, localUserData,
           tempUserData, draggingPeak, hasDragged, inflight, srvUser, sends, ev,
           pressed>>
varsT == <<hills, heightData, draggingHillId, dragStateRef, dragEndRef, buttonDown,
           pendingAdjust, tev>>
varsS == <<data, rendered>>
varsD == <<terrain, status, loading, error, isMounted, awaitingStatus,
           awaitingTerrain, srvStatus, pollCount, dev>>
varsG == <<amplitudes, gini>>
varsP == <<positions, normalized>>
varsF == <<calls>>
varsC == <<activeTab, messages, input, chatLoading, chatStorage, chatRequests, submits, cev>>
varsO == <<adjustRequests, adjustResponses, issued, latestResponse>>
vars == <<varsW, varsT, varsS, varsD, varsG, varsP, varsF, varsC, varsO>>

Max(a, b) == IF a >= b THEN a ELSE b
Min(a, b) == IF a <= b THEN a ELSE b

\* the sum of a sequence of numbers
RECURSIVE Sum(_)
Sum(s) == IF s = << >> THEN 0 ELSE s[1] + Sum(Tail(s))

(***************************************************************************)
(* Bounds of the model                                                     *)
(***************************************************************************)
MaxSends == 1      \* releases that send adjust requests in one run
MaxPending == 1    \* terrain adjust requests awaited at once
MaxClientY == 2    \* terrain pointer positions 0..MaxClientY
MaxPolls == 3      \* pollStatus calls of one mounted useDataset
MaxLen == 3        \* length of the sequences given to the backend calculations
MaxAmp == 3        \* largest magnitude and largest projected scalar
MaxCalls == 3      \* concurrent fetchWithTimeout calls
MaxSubmits == 2    \* accepted chat submissions in one run
MaxIssued == 2     \* adjust requests issued in one run of the ordering model

(***************************************************************************)
(* Three-waveform Waveform component                                       *)
(***************************************************************************)
height == 700
padding == 100
minWeight == 1      \* 0.01
maxWeight == 200    \* 2
NoPeak == 0         \* draggingPeak === null
LeftSvg == -1       \* the pointer left the svg with the button held

\* sampleCount of the base peaks of the modelled dataset
SampleCounts == <<2, 4>>
Peaks == DOMAIN SampleCounts

\* the AI waveform of the modelled dataset
AiPeaks == <<[count |-> 1, weight |-> 50], [count |-> 3, weight |-> 150]>>

\* pointer positions relative to the top of the svg (e.clientY - rect.top): the top
\* edge, the middle and the bottom edge of the svg
PointerYs == {0, height \div 2, height}

\* ratio = Math.max(0, Math.min(1, 1 - normalizedY)), as a numerator over RatioDen
RatioDen == height - 2 * padding
RatioNum(y) == Max(0, Min(RatioDen, RatioDen - (y - padding)))

\* Math.round(n / d) for n >= 0, d > 0: halves round up
Round(n, d) == (2 * n + d) \div (2 * d)

\* Number(x.toFixed(2)) of the weight n/d hundredths: the nearest hundredth; an
\* exact half is decided by the binary representation, so both neighbours
ToFixed2(n, d) ==
  IF 2 * (n % d) < d THEN {n \div d}
  ELSE IF 2 * (n % d) > d THEN {(n \div d) + 1}
  ELSE {n \div d, (n \div d) + 1}

maxSampleCount == LET S == {baseData[p].sampleCount : p \in Peaks}
                  IN CHOOSE m \in S : \A s \in S : s <= m

\* fault variant of newCount: the clamp to the peak's own sampleCount is missing
newCount_noClamp(r, sampleCount) == Round(r * maxSampleCount, RatioDen)

\* Math.min(Math.round(ratio * maxSampleCount), basePeak.sampleCount)
newCount(r, sampleCount) == Min(Round(r * maxSampleCount, RatioDen), sampleCount)

\* fault variant of clampedWeight: the scale starts at 0 and has no lower clamp
clampedWeight_fromZero(r) == ToFixed2(Min(maxWeight * RatioDen, r * maxWeight), RatioDen)

\* clampedWeight.toFixed(2) of minWeight + ratio * (maxWeight - minWeight)
clampedWeight(r) ==
  LET n == minWeight * RatioDen + r * (maxWeight - minWeight)
      lo == minWeight * RatioDen
      hi == maxWeight * RatioDen
  IN ToFixed2(Max(lo, Min(hi, n)), RatioDen)

displayUserData == IF tempUserData # << >> THEN tempUserData[1] ELSE localUserData


\* fault variant of dragCount: the weight is recomputed from the new count
dragCount_reconciled(peak, r, sampleCount) ==
  [peak EXCEPT !.count = newCount(r, sampleCount),
               !.weight = (100 * newCount(r, sampleCount)) \div sampleCount]

\* count mode: { ...peak, count: newCount }
dragCount(peak, r, sampleCount) == [peak EXCEPT !.count = newCount(r, sampleCount)]

\* weight mode: { ...peak, weight: Number(clampedWeight.toFixed(2)) }
dragWeight(peak, w) == [peak EXCEPT !.weight = w]

\* the last event: its kind, the peak it concerned and, for a mouse-move, the pointer
\* position
Ev(kind, peak, y) == [kind |-> kind, peak |-> peak, y |-> y]

\* fault variant of adjustmentOf: both fields of the peak are sent
adjustmentOf_bothFields(id, adjustedPeak) ==
  [id |-> id, count |-> adjustedPeak.count, weight |-> adjustedPeak.weight]

\* the adjustments entry finishDrag sends for the adjusted peak
adjustmentOf(id, adjustedPeak) ==
  IF mode = "count" THEN [id |-> id, count |-> adjustedPeak.count]
  ELSE [id |-> id, weight |-> adjustedPeak.weight]

\* The adjust endpoint: the supplied field is clamped and stored, the other field
\* of the record is left as it is
SrvApply(srv, adj) ==
  LET sc == SampleCounts[adj.id]
      a == IF "count" \in DOMAIN adj
           THEN [srv[adj.id] EXCEPT !.count = Max(0, Min(sc, adj.count))]
           ELSE srv[adj.id]
      b == IF "weight" \in DOMAIN adj
           THEN [a EXCEPT !.weight = Max(0, Min(maxWeight, adj.weight))]
           ELSE a
  IN [srv EXCEPT ![adj.id] = b]

InitWaveform ==
  /\ mode = "count"
  /\ baseData = [p \in Peaks |->
                   [sampleCount |-> SampleCounts[p], count |-> SampleCounts[p], weight |-> 100]]
  /\ userData = [p \in Peaks |-> [count |-> SampleCounts[p], weight |-> 100]]
  /\ aiData = AiPeaks
  /\ localUserData = userData
  /\ tempUserData = << >>
  /\ draggingPeak = NoPeak
  /\ hasDragged = FALSE
  /\ inflight = << >>
  /\ srvUser = userData
  /\ sends = 0
  /\ ev = Ev("init", NoPeak, 0)
  /\ pressed = NoPeak

\* WaveformModeToggle: onModeChange={setMode}
setMode ==
  /\ mode' = IF mode = "count" THEN "weight" ELSE "count"
  /\ ev' = Ev("mode", NoPeak, 0)
  /\ UNCHANGED <<baseData, userData, aiData, localUserData,
                 tempUserData, draggingPeak, hasDragged, inflight, srvUser, sends,
                 pressed>>

handleMouseDown(peakId) ==
  /\ pressed = NoPeak
  /\ draggingPeak' = peakId
  /\ hasDragged' = FALSE
  /\ ev' = Ev("down", peakId, 0)
  /\ pressed' = peakId
  /\ UNCHANGED <<mode, baseData, userData, aiData, localUserData,
                 tempUserData, inflight, srvUser, sends>>

\* fault variant of handleMouseMove: the peaks that are not dragged are taken from
\* the AI waveform
handleMouseMove_aiPeaks(y) ==
  /\ draggingPeak # NoPeak
  /\ hasDragged' = TRUE
  /\ LET r == RatioNum(y)
         currentData == IF tempUserData # << >> THEN tempUserData[1] ELSE localUserData
     IN \E w \in clampedWeight(r) :
          tempUserData' =
            << [p \in Peaks |->
                  IF p = draggingPeak
                  THEN IF mode = "count"
                       THEN dragCount(currentData[p], r, baseData[p].sampleCount)
                       ELSE dragWeight(currentData[p], w)
                  ELSE aiData[p]] >>
  /\ ev' = Ev("move", draggingPeak, y)
  /\ UNCHANGED <<mode, baseData, userData, aiData, localUserData,
                 draggingPeak, inflight, srvUser, sends, pressed>>

handleMouseMove(y) ==
  /\ draggingPeak # NoPeak
  /\ hasDragged' = TRUE
  /\ LET r == RatioNum(y)
         currentData == IF tempUserData # << >> THEN tempUserData[1] ELSE localUserData
     IN \E w \in clampedWeight(r) :
          tempUserData' =
            << [p \in Peaks |->
                  IF p = draggingPeak
                  THEN IF mode = "count"
                       THEN dragCount(currentData[p], r, baseData[p].sampleCount)
                       ELSE dragWeight(currentData[p], w)
                  ELSE currentData[p]] >>
  /\ ev' = Ev("move", draggingPeak, y)
  /\ UNCHANGED <<mode, baseData, userData, aiData, localUserData,
                 draggingPeak, inflight, srvUser, sends, pressed>>

\* the button after the event that called finishDrag: a mouse-up releases it, a
\* mouse-leave does not
Released(kind) ==
  IF kind = "up" \/ pressed = NoPeak THEN NoPeak ELSE LeftSvg

\* finishDrag called n times by one event (the svg handler and the window listener
\* run on the same render's state, since finishDrag sets no state before its await)
finishDrag(n, kind) ==
  IF draggingPeak = NoPeak
  THEN /\ ev' = Ev(kind, NoPeak, 0)
       /\ pressed' = Released(kind)
       /\ UNCHANGED <<mode, baseData, userData, aiData, localUserData, tempUserData,
                      draggingPeak, hasDragged, inflight, srvUser, sends>>
  ELSE IF ~hasDragged
  THEN \* onClusterClick(peakId), the parent's setSelectedClusterId
       /\ ev' = Ev("click", draggingPeak, 0)
       /\ pressed' = Released(kind)
       /\ draggingPeak' = NoPeak
       /\ tempUserData' = << >>
       /\ UNCHANGED <<mode, baseData, userData, aiData, localUserData, hasDragged,
                      inflight, srvUser, sends>>
  ELSE /\ sends < MaxSends
       /\ sends' = sends + 1
       /\ ev' = Ev("sent", draggingPeak, 0)
       /\ pressed' = Released(kind)
       /\ LET currentUserData == IF tempUserData # << >> THEN tempUserData[1]
                                 ELSE localUserData
              adj == adjustmentOf(draggingPeak, currentUserData[draggingPeak])
          IN inflight' = inflight \o [i \in 1..n |-> adj]
       /\ UNCHANGED <<mode, baseData, userData, aiData, localUserData, tempUserData,
                      draggingPeak, hasDragged, srvUser>>

\* mouse released over the svg: onMouseUp={handleMouseUp} and the window listener
svgMouseUp == finishDrag(2, "up")

\* mouse released outside the svg: the window 'mouseup' listener alone
windowMouseUp == finishDrag(1, "up")

\* onMouseLeave={handleMouseUp}
svgMouseLeave == finishDrag(1, "leave")

Remove(s, i) == [j \in 1..(Len(s) - 1) |-> IF j < i THEN s[j] ELSE s[j + 1]]

\* the server applies request i and the awaited adjustAmplitudes resolves:
\* onDataUpdate(updatedData), which is the parent's updateWaveforms, then the
\* Waveform's sync effect, then the two setters after the try block
adjustResolved(i) ==
  /\ i \in 1..Len(inflight)
  /\ srvUser' = SrvApply(srvUser, inflight[i])
  /\ baseData' = baseData
  /\ userData' = srvUser'
  /\ aiData' = AiPeaks
  /\ localUserData' = userData'
  /\ tempUserData' = << >>
  /\ draggingPeak' = NoPeak
  /\ inflight' = Remove(inflight, i)
  /\ ev' = Ev("adjustOk", inflight[i].id, 0)
  /\ UNCHANGED <<mode, hasDragged, sends, pressed>>

\* fault variant of adjustRejected: the optimistic drag state is kept after a failure
adjustRejected_keepsTemp(i) ==
  /\ i \in 1..Len(inflight)
  /\ srvUser' \in {srvUser, SrvApply(srvUser, inflight[i])}
  /\ draggingPeak' = NoPeak
  /\ inflight' = Remove(inflight, i)
  /\ ev' = Ev("adjustFailed", inflight[i].id, 0)
  /\ UNCHANGED <<mode, baseData, userData, aiData, localUserData, tempUserData,
                 hasDragged, sends, pressed>>

\* the awaited adjustAmplitudes rejects (HTTP error, network error or timeout; the
\* server may or may not have applied the request): the catch block, then the setters
adjustRejected(i) ==
  /\ i \in 1..Len(inflight)
  /\ srvUser' \in {srvUser, SrvApply(srvUser, inflight[i])}
  /\ draggingPeak' = NoPeak
  /\ tempUserData' = << >>
  /\ inflight' = Remove(inflight, i)
  /\ ev' = Ev("adjustFailed", inflight[i].id, 0)
  /\ UNCHANGED <<mode, baseData, userData, aiData, localUserData, hasDragged, sends,
                 pressed>>

NextWaveform ==
  \/ setMode
  \/ \E p \in Peaks : handleMouseDown(p)
  \/ \E y \in PointerYs : handleMouseMove(y)
  \/ svgMouseUp
  \/ windowMouseUp
  \/ svgMouseLeave
  \/ \E i \in 1..2 * MaxSends : adjustResolved(i)
  \/ \E i \in 1..2 * MaxSends : adjustRejected(i)


(***************************************************************************)
(* Terrain view: TerrainMap, useDrag, ClusterList actions                  *)
(***************************************************************************)
NoHill == 0         \* draggingHillId === null

\* originalHeight of the hills of the modelled terrain, in steps of 0.05
OriginalHeights == <<1, 2>>
Hills == DOMAIN OriginalHeights
ClientYs == 0..MaxClientY

RECURSIVE Gcd(_, _)
Gcd(a, b) == IF b = 0 THEN a ELSE Gcd(b, a % b)

\* the number n / d (n >= 0, d > 0) in lowest terms
Rat(n, d) == LET g == Gcd(n, d) IN [n |-> n \div g, d |-> d \div g]

\* fault variant of clampedHeight: the upper clamp is missing
clampedHeight_noMax(newHeight, hill) == Max(0, newHeight)

\* Math.max(0, Math.min(newHeight, hill.originalHeight * 2))
clampedHeight(newHeight, hill) == Max(0, Min(newHeight, hill.originalHeight * 2))

\* { ...hill, height: clampedHeight, weight: clampedHeight / hill.originalHeight }
heightChanged(hill, newHeight) ==
  [hill EXCEPT !.height = clampedHeight(newHeight, hill),
               !.weight = Rat(clampedHeight(newHeight, hill), hill.originalHeight)]

\* fault variant of resetHill: the weight is not restored
resetHill_heightOnly(h) == [h EXCEPT !.height = h.originalHeight]

\* { ...h, height: h.originalHeight, weight: 1.0 }
resetHill(h) == [h EXCEPT !.height = h.originalHeight, !.weight = Rat(1, 1)]

\* fault variant of flattenHill: the weight is not set
flattenHill_heightOnly(h) == [h EXCEPT !.height = 0]

\* { ...h, height: 0, weight: 0 }
flattenHill(h) == [h EXCEPT !.height = 0, !.weight = Rat(0, 1)]

\* the contribution of a hill of height 1 to each grid cell,
\* Math.exp(-(dist ** 2) / (2 * (radius / 10) ** 2)), in thirds: a hill counts fully
\* in the cell of its centre and for a third in the neighbouring cell
Contribution == <<<<3, 1>>, <<1, 3>>>>
Cells == 1..2

\* heightData[cell] += height * contribution, summed over the hills
generateHeightData(hs) ==
  [c \in Cells |-> Sum([h \in Hills |-> hs[h].height * Contribution[h][c]])]

InitTerrain ==
  /\ hills = [h \in Hills |->
                [height |-> OriginalHeights[h], originalHeight |-> OriginalHeights[h],
                 weight |-> Rat(1, 1)]]
  /\ heightData = generateHeightData(hills)
  /\ draggingHillId = NoHill
  /\ dragStateRef = << >>
  /\ dragEndRef = << >>
  /\ buttonDown = FALSE
  /\ pendingAdjust = << >>
  /\ tev = "init"

\* Hill.handlePointerDown -> onDragStart(hill.id, clientY, hill.height) = startDrag
startDrag(hillId, clientY) ==
  /\ ~buttonDown
  /\ buttonDown' = TRUE
  /\ draggingHillId' = hillId
  /\ dragStateRef' = << [hillId |-> hillId, startY |-> clientY,
                         originalHeight |-> hills[hillId].height] >>
  /\ tev' = "start"
  /\ UNCHANGED <<hills, heightData, dragEndRef, pendingAdjust>>

\* the button is pressed somewhere else than on a hill
mouseDownElsewhere ==
  /\ ~buttonDown
  /\ buttonDown' = TRUE
  /\ tev' = "down"
  /\ UNCHANGED <<hills, heightData, draggingHillId, dragStateRef, dragEndRef, pendingAdjust>>

\* window 'mousemove' listener -> onDragMove(clientY) -> handleHeightChange
TerrainMap_handleMouseMove(clientY) ==
  /\ draggingHillId # NoHill
  /\ dragStateRef # << >>
  /\ LET st == dragStateRef[1]
         newHeight == st.originalHeight + (st.startY - clientY)
     IN /\ hills' = [hills EXCEPT ![st.hillId] = heightChanged(@, newHeight)]
        /\ dragEndRef' = << [hillId |-> st.hillId,
                             newHeight |-> clampedHeight(newHeight, hills[st.hillId])] >>
  /\ heightData' = generateHeightData(hills')
  /\ tev' = "move"
  /\ UNCHANGED <<draggingHillId, dragStateRef, buttonDown, pendingAdjust>>

\* the condition under which the window 'mouseup' listener commits the drag
mouseUpCommits == draggingHillId # NoHill /\ dragEndRef # << >>

\* the button is released: window 'mouseup' listener, up to its await
TerrainMap_handleMouseUp ==
  /\ buttonDown
  /\ buttonDown' = FALSE
  /\ tev' = "up"
  /\ IF mouseUpCommits
     THEN /\ Len(pendingAdjust) < MaxPending
          /\ LET e == dragEndRef[1]
             IN pendingAdjust' = Append(pendingAdjust,
                  [hillId |-> e.hillId,
                   weight |-> Rat(e.newHeight, hills[e.hillId].originalHeight)])
     ELSE UNCHANGED pendingAdjust
  /\ UNCHANGED <<hills, heightData, draggingHillId, dragStateRef, dragEndRef>>

\* adjustWeights settles: resolved, or rejected and the catch block logs the error;
\* in both cases dragEndRef.current = null; endDrag()
adjustSettled(i) ==
  /\ i \in 1..Len(pendingAdjust)
  /\ pendingAdjust' = Remove(pendingAdjust, i)
  /\ dragEndRef' = << >>
  /\ draggingHillId' = NoHill
  /\ dragStateRef' = << >>
  /\ tev' \in {"settled", "adjustFailed"}
  /\ UNCHANGED <<hills, heightData, buttonDown>>

\* ClusterList "Reset"
onResetCluster(id) ==
  /\ hills' = [hills EXCEPT ![id] = resetHill(@)]
  /\ tev' = "reset"
  /\ UNCHANGED <<heightData, draggingHillId, dragStateRef, dragEndRef, buttonDown, pendingAdjust>>

\* ClusterList "Flatten"
onFlattenCluster(id) ==
  /\ hills' = [hills EXCEPT ![id] = flattenHill(@)]
  /\ tev' = "flatten"
  /\ UNCHANGED <<heightData, draggingHillId, dragStateRef, dragEndRef, buttonDown, pendingAdjust>>

NextTerrain ==
  \/ \E h \in Hills, y \in ClientYs : startDrag(h, y)
  \/ mouseDownElsewhere
  \/ \E y \in ClientYs : TerrainMap_handleMouseMove(y)
  \/ TerrainMap_handleMouseUp
  \/ \E i \in 1..MaxPending + 1 : adjustSettled(i)
  \/ \E h \in Hills : onResetCluster(h)
  \/ \E h \in Hills : onFlattenCluster(h)

(***************************************************************************)
(* Mode-aware single-dataset Waveform: the places that read a peak's       *)
(* selectedCount and weight. An optional field is << >> (undefined) or     *)
(* <<value>>; weights are in hundredths.                                   *)
(***************************************************************************)
\* a ?? b, both possibly undefined
Nullish(a, b) == IF a # << >> THEN a ELSE b

\* the values an optional field of the modelled peaks takes
OptSelectedCounts == {<< >>, <<1>>}
OptWeights == {<< >>, <<50>>}
OptSuggestedCounts == {<< >>, <<2>>}
OptSuggestedWeights == {<< >>, <<150>>}

\* the data the component can receive: two peaks with sampleCount 2 and 4
PeakInputs ==
  [Peaks -> [selectedCount : OptSelectedCounts, weight : OptWeights,
             suggestedCount : OptSuggestedCounts, suggestedWeight : OptSuggestedWeights]]

\* what a place has read: the place, the mode and the value it uses for each peak
\* (<< >> where the value is undefined, which the arithmetic turns into NaN)
Read(place, m, values) == [place |-> place, mode |-> m, values |-> values]

\* p.selectedCount ?? p.sampleCount
selectedCountOf(p) == Nullish(data[p].selectedCount, <<SampleCounts[p]>>)

\* p.weight ?? 1.0
weightOf(p) == Nullish(data[p].weight, <<100>>)

\* generateSmoothPath: the current-waveform path
generateSmoothPath(m) ==
  /\ rendered' = Read("path", m, [p \in Peaks |->
                    IF m = "count" THEN selectedCountOf(p) ELSE weightOf(p)])
  /\ UNCHANGED data

\* generateSuggestedPath: '' when no peak has a suggestion for the mode, else
\* p.suggestedCount ?? p.selectedCount, p.suggestedWeight ?? (p.weight ?? 1.0)
generateSuggestedPath(m) ==
  /\ LET hasSuggestions ==
           IF m = "count" THEN \E p \in Peaks : data[p].suggestedCount # << >>
           ELSE \E p \in Peaks : data[p].suggestedWeight # << >>
     IN IF ~hasSuggestions
        THEN rendered' = Read("noSuggestedPath", m, [p \in Peaks |-> << >>])
        ELSE rendered' = Read("suggestedPath", m, [p \in Peaks |->
               IF m = "count" THEN Nullish(data[p].suggestedCount, data[p].selectedCount)
               ELSE Nullish(data[p].suggestedWeight, weightOf(p))])
  /\ UNCHANGED data

\* the interactive peak markers
peakMarkers(m) ==
  /\ rendered' = Read("markers", m, [p \in Peaks |->
                    IF m = "count" THEN selectedCountOf(p) ELSE weightOf(p)])
  /\ UNCHANGED data

\* the adjustments entry finishDrag sends for the adjusted peak on release
releaseRequest(m, peakId) ==
  /\ rendered' = Read("request", m, [p \in Peaks |->
                    IF p # peakId THEN << >>
                    ELSE IF m = "count" THEN selectedCountOf(p) ELSE weightOf(p)])
  /\ UNCHANGED data

InitSingle ==
  /\ data = [p \in Peaks |-> [selectedCount |-> << >>, weight |-> << >>,
                              suggestedCount |-> << >>, suggestedWeight |-> << >>]]
  /\ rendered = Read("none", "count", [p \in Peaks |-> << >>])

NextSingle ==
  \/ \E m \in {"count", "weight"} : generateSmoothPath(m)
  \/ \E m \in {"count", "weight"} : generateSuggestedPath(m)
  \/ \E m \in {"count", "weight"} : peakMarkers(m)
  \/ \E m \in {"count", "weight"}, p \in Peaks : releaseRequest(m, p)

(***************************************************************************)
(* useDataset: status polling and the terrain request                      *)
(***************************************************************************)
\* the message of a status record: absent ("") or present
Messages == {"", "bad csv"}
TerminalStatuses == {"completed", "failed"}

StatusResponse(st, message) == [status |-> st, message |-> message]

\* fault variant of failedError: no default for an absent message
failedError_noDefault(message) == message

\* statusData.message || 'Processing failed'
failedError(message) == IF message = "" THEN "Processing failed" ELSE message

InitDataset ==
  /\ terrain = << >>
  /\ status = << >>
  /\ loading = TRUE
  /\ error = << >>
  /\ isMounted = TRUE
  /\ awaitingStatus = 1      \* the pollStatus() call of the effect
  /\ awaitingTerrain = 0
  /\ srvStatus = StatusResponse("processing", "")
  /\ pollCount = 1
  /\ dev = "mount"

\* the backend finishes processing the dataset
processingEnds(st, message) ==
  /\ srvStatus.status = "processing"
  /\ srvStatus' = StatusResponse(st, message)
  /\ dev' = "backend"
  /\ UNCHANGED <<terrain, status, loading, error, isMounted, awaitingStatus,
                 awaitingTerrain, pollCount>>

\* setInterval(pollStatus, 2000) fires: the interval is cleared by the effect's
\* cleanup only
intervalTick ==
  /\ isMounted
  /\ pollCount < MaxPolls
  /\ pollCount' = pollCount + 1
  /\ awaitingStatus' = awaitingStatus + 1
  /\ dev' = "tick"
  /\ UNCHANGED <<terrain, status, loading, error, isMounted, awaitingTerrain, srvStatus>>

\* await getStatus(datasetId) resolves with the backend's status
getStatusResolved ==
  /\ awaitingStatus > 0
  /\ awaitingStatus' = awaitingStatus - 1
  /\ IF ~isMounted
     THEN /\ dev' = "ignored"
          /\ UNCHANGED <<terrain, status, loading, error, awaitingTerrain>>
     ELSE /\ status' = <<srvStatus>>
          /\ dev' = srvStatus.status
          /\ terrain' = terrain
          /\ IF srvStatus.status = "completed"
             THEN /\ awaitingTerrain' = awaitingTerrain + 1
                  /\ UNCHANGED <<loading, error>>
             ELSE IF srvStatus.status = "failed"
             THEN /\ error' = <<failedError(srvStatus.message)>>
                  /\ loading' = FALSE
                  /\ UNCHANGED awaitingTerrain
             ELSE UNCHANGED <<loading, error, awaitingTerrain>>
  /\ UNCHANGED <<isMounted, srvStatus, pollCount>>

\* await getStatus(datasetId) rejects: the catch block (the error's own message, or
\* 'Failed to fetch status'; one message stands for them)
getStatusRejected ==
  /\ awaitingStatus > 0
  /\ awaitingStatus' = awaitingStatus - 1
  /\ IF ~isMounted
     THEN dev' = "ignored" /\ UNCHANGED <<loading, error>>
     ELSE dev' = "statusError" /\ error' = <<"Failed to fetch status">> /\ loading' = FALSE
  /\ UNCHANGED <<terrain, status, isMounted, awaitingTerrain, srvStatus, pollCount>>

\* fault variant of getTerrainResolved: isMounted is not checked
getTerrainResolved_unchecked ==
  /\ awaitingTerrain > 0
  /\ awaitingTerrain' = awaitingTerrain - 1
  /\ dev' = IF isMounted THEN "terrain" ELSE "ignored"
  /\ terrain' = <<"terrain">>
  /\ loading' = FALSE
  /\ UNCHANGED <<status, error, isMounted, awaitingStatus, srvStatus, pollCount>>

\* await getTerrain(datasetId) resolves
getTerrainResolved ==
  /\ awaitingTerrain > 0
  /\ awaitingTerrain' = awaitingTerrain - 1
  /\ IF isMounted
     THEN dev' = "terrain" /\ terrain' = <<"terrain">> /\ loading' = FALSE
     ELSE dev' = "ignored" /\ UNCHANGED <<terrain, loading>>
  /\ UNCHANGED <<status, error, isMounted, awaitingStatus, srvStatus, pollCount>>

\* await getTerrain(datasetId) rejects: the catch block
getTerrainRejected ==
  /\ awaitingTerrain > 0
  /\ awaitingTerrain' = awaitingTerrain - 1
  /\ IF ~isMounted
     THEN dev' = "ignored" /\ UNCHANGED <<loading, error>>
     ELSE dev' = "terrainError" /\ error' = <<"Failed to fetch status">> /\ loading' = FALSE
  /\ UNCHANGED <<terrain, status, isMounted, awaitingStatus, srvStatus, pollCount>>

\* the effect's cleanup: isMounted = false; clearInterval(pollInterval)
unmount ==
  /\ isMounted
  /\ isMounted' = FALSE
  /\ dev' = "unmount"
  /\ UNCHANGED <<terrain, status, loading, error, awaitingStatus, awaitingTerrain,
                 srvStatus, pollCount>>

NextDataset ==
  \/ \E st \in TerminalStatuses, m \in Messages : processingEnds(st, m)
  \/ intervalTick
  \/ getStatusResolved
  \/ getStatusRejected
  \/ getTerrainResolved
  \/ getTerrainRejected
  \/ unmount

(***************************************************************************)
(* Backend calculations: Gini coefficient and 1-D projection. A number is  *)
(* the quotient [n, d]; [n |-> 0, d |-> 0] is the NaN that 0/0 gives.      *)
(***************************************************************************)

RECURSIVE Insert(_, _)
Insert(x, s) == IF s = << >> THEN <<x>>
                ELSE IF x <= s[1] THEN <<x>> \o s
                ELSE <<s[1]>> \o Insert(x, Tail(s))

\* sorted(amplitudes)
RECURSIVE sorted(_)
sorted(s) == IF s = << >> THEN << >> ELSE Insert(s[1], sorted(Tail(s)))

\* fault variant of cumsum: the ranks start at 0
cumsum_zeroBased(sorted_amps) ==
  Sum([i \in 1..Len(sorted_amps) |-> (i - 1) * sorted_amps[i]])

\* sum((i + 1) * a for i, a in enumerate(sorted_amps))
cumsum(sorted_amps) == Sum([i \in 1..Len(sorted_amps) |-> i * sorted_amps[i]])

\* the outcome of a calculation: a value, or what a division by zero gives: the
\* error Python numbers raise, or the NaN of numpy numbers
Value(n, d) == [kind |-> "value", n |-> n, d |-> d]
ZeroDivision == [kind |-> "ZeroDivisionError", n |-> 0, d |-> 0]
NaN == [kind |-> "nan", n |-> 0, d |-> 0]

\* gini = (2 * cumsum) / (n * sum(sorted_amps)) - (n + 1) / n
\*      = (2 * cumsum - (n + 1) * sum) / (n * sum), both divisors being n * sum and n;
\* the set of its possible outcomes
Gini(amps) ==
  LET sorted_amps == sorted(amps)
      n == Len(sorted_amps)
      total == Sum(sorted_amps)
  IN IF n * total = 0 \/ n = 0 THEN {ZeroDivision, NaN}
     ELSE {Value(2 * cumsum(sorted_amps) - (n + 1) * total, n * total)}

SeqsUpTo(S, k) == UNION {[1..m -> S] : m \in 0..k}

SeqMin(s) == CHOOSE x \in {s[i] : i \in DOMAIN s} : \A i \in DOMAIN s : x <= s[i]
SeqMax(s) == CHOOSE x \in {s[i] : i \in DOMAIN s} : \A i \in DOMAIN s : x >= s[i]

\* (positions - positions.min()) / (positions.max() - positions.min()), elementwise;
\* the array division gives NaN for 0 / 0
project_to_1d(pos) ==
  [i \in DOMAIN pos |-> [n |-> pos[i] - SeqMin(pos), d |-> SeqMax(pos) - SeqMin(pos)]]

InitGini ==
  /\ amplitudes = << >>
  /\ gini = << >>

InitProject ==
  /\ positions = <<0>>
  /\ normalized = << >>

\* build_waveform: calculate the Gini coefficient
calculateGini ==
  /\ gini = << >>
  /\ \E g \in Gini(amplitudes) : gini' = <<g>>
  /\ UNCHANGED amplitudes

\* build_waveform: project the cluster centers to 1D for the x positions
projectTo1d ==
  /\ normalized = << >>
  /\ normalized' = <<project_to_1d(positions)>>
  /\ UNCHANGED positions

(***************************************************************************)
(* fetchWithTimeout: each call has its own AbortController and timer       *)
(***************************************************************************)
Calls == 1..MaxCalls

TimeoutMessage == "Request timeout - please try again"

\* a call: pc is "idle" (not called), "awaiting" (in await fetch) or "done";
\* timer is "none", "armed", "fired" or "cleared"; result is "none", "response"
\* or the message of the error thrown
Call(pc, timer, aborted, result) ==
  [pc |-> pc, timer |-> timer, aborted |-> aborted, result |-> result]

InitFetch == calls = [c \in Calls |-> Call("idle", "none", FALSE, "none")]

\* new AbortController(); setTimeout(() => controller.abort(), timeout); fetch(...)
fetchWithTimeout(c) ==
  /\ calls[c].pc = "idle"
  /\ calls' = [calls EXCEPT ![c] = Call("awaiting", "armed", FALSE, "none")]

\* the timeout elapses: the timer callback calls controller.abort()
timerFires(c) ==
  /\ calls[c].timer = "armed"
  /\ calls' = [calls EXCEPT ![c].timer = "fired", ![c].aborted = TRUE]

\* await fetch resolves: clearTimeout(timeoutId); return response
fetchResolved(c) ==
  /\ calls[c].pc = "awaiting"
  /\ ~calls[c].aborted
  /\ calls' = [calls EXCEPT ![c] = Call("done", "cleared", FALSE, "response")]

\* the error the catch block throws for the error fetch rejected with
thrown(name) == IF name = "AbortError" THEN TimeoutMessage ELSE name

\* await fetch rejects with AbortError after controller.abort(): the catch block
fetchAborted(c) ==
  /\ calls[c].pc = "awaiting"
  /\ calls[c].aborted
  /\ calls' = [calls EXCEPT ![c].pc = "done", ![c].result = thrown("AbortError")]

\* fault variant of fetchFailed: the catch block does not clear the timer
fetchFailed_timerKept(c) ==
  /\ calls[c].pc = "awaiting"
  /\ ~calls[c].aborted
  /\ calls' = [calls EXCEPT ![c].pc = "done", ![c].result = thrown("TypeError")]

\* await fetch rejects with a network error: the catch block clears the timer and
\* rethrows
fetchFailed(c) ==
  /\ calls[c].pc = "awaiting"
  /\ ~calls[c].aborted
  /\ calls' = [calls EXCEPT ![c] = Call("done", "cleared", FALSE, thrown("TypeError"))]

NextFetch ==
  \/ \E c \in Calls : fetchWithTimeout(c)
  \/ \E c \in Calls : timerFires(c)
  \/ \E c \in Calls : fetchResolved(c)
  \/ \E c \in Calls : fetchAborted(c)
  \/ \E c \in Calls : fetchFailed(c)

(***************************************************************************)
(* ChatBox inside the MetricsPanel's Chat tab. A message is [role,         *)
(* content]; the stored text is the flat list role, content, role, ...     *)
(***************************************************************************)
Message(role, content) == [role |-> role, content |-> content]

\* the texts the input field takes: empty, blank, a question
Inputs == {"", " ", "q"}

\* input.trim()
trim(text) == IF text = " " THEN "" ELSE text

\* JSON.stringify(messages)
stringify(msgs) ==
  [i \in 1..2 * Len(msgs) |->
     IF i % 2 = 1 THEN msgs[(i + 1) \div 2].role ELSE msgs[i \div 2].content]

\* JSON.parse(savedMessages)
parse(text) ==
  [i \in 1..Len(text) \div 2 |-> Message(text[2 * i - 1], text[2 * i])]

\* the save effect: if (messages.length > 0) localStorage.setItem(...)
saved(msgs, storage) == IF Len(msgs) > 0 THEN <<stringify(msgs)>> ELSE storage

InitChat ==
  /\ activeTab = "info"
  /\ messages = << >>
  /\ input = ""
  /\ chatLoading = FALSE
  /\ chatStorage = << >>
  /\ chatRequests = << >>
  /\ submits = 0
  /\ cev = "init"

\* handleTabChange("chat"): the ChatBox mounts with fresh state, the load effect
\* reads the stored history, then the save effect runs
showChat ==
  /\ activeTab = "info"
  /\ activeTab' = "chat"
  /\ messages' = IF chatStorage # << >> THEN parse(chatStorage[1]) ELSE << >>
  /\ input' = ""
  /\ chatLoading' = FALSE
  /\ chatStorage' = saved(messages', chatStorage)
  /\ cev' = "mount"
  /\ UNCHANGED <<chatRequests, submits>>

\* handleTabChange("info"): the ChatBox unmounts; its pending requests will call the
\* setters of an unmounted component
showInfo ==
  /\ activeTab = "chat"
  /\ activeTab' = "info"
  /\ chatRequests' = [i \in DOMAIN chatRequests |-> FALSE]
  /\ cev' = "unmount"
  /\ UNCHANGED <<messages, input, chatLoading, chatStorage, submits>>

\* onChange of the input field (disabled while loading)
setInput(text) ==
  /\ activeTab = "chat"
  /\ ~chatLoading
  /\ input' = text
  /\ cev' = "input"
  /\ UNCHANGED <<activeTab, messages, chatLoading, chatStorage, chatRequests, submits>>

\* the form's onSubmit
handleSubmit ==
  /\ activeTab = "chat"
  /\ IF trim(input) = "" \/ chatLoading
     THEN /\ cev' = "submitIgnored"
          /\ UNCHANGED <<messages, input, chatLoading, chatStorage, chatRequests, submits>>
     ELSE /\ submits < MaxSubmits
          /\ submits' = submits + 1
          /\ messages' = Append(messages, Message("user", trim(input)))
          /\ input' = ""
          /\ chatLoading' = TRUE
          /\ chatRequests' = Append(chatRequests, TRUE)
          /\ chatStorage' = saved(messages', chatStorage)
          /\ cev' = "submitted"
  /\ UNCHANGED activeTab

\* request i completes with the assistant message `content` (the reply, or
\* 'Error: ...' from the catch block); finally setLoading(false)
chatCompleted(i, content, kind) ==
  /\ i \in 1..Len(chatRequests)
  /\ chatRequests' = Remove(chatRequests, i)
  /\ IF chatRequests[i]
     THEN /\ messages' = Append(messages, Message("assistant", content))
          /\ chatLoading' = FALSE
          /\ chatStorage' = saved(messages', chatStorage)
          /\ cev' = kind
     ELSE /\ cev' = "dropped"
          /\ UNCHANGED <<messages, chatLoading, chatStorage>>
  /\ UNCHANGED <<activeTab, input, submits>>

\* await apiClient.chat(...) resolves
chatResolved(i) == chatCompleted(i, "reply", "reply")

\* await apiClient.chat(...) rejects
chatRejected(i) == chatCompleted(i, "Error: Failed to get response", "error")

\* fault variant of handleClearHistory: the stored history is kept
handleClearHistory_keepsStorage ==
  /\ activeTab = "chat"
  /\ Len(messages) > 0
  /\ messages' = << >>
  /\ cev' = "clear"
  /\ UNCHANGED <<activeTab, input, chatLoading, chatStorage, chatRequests, submits>>

\* the Clear button (shown while there are messages)
handleClearHistory ==
  /\ activeTab = "chat"
  /\ Len(messages) > 0
  /\ messages' = << >>
  /\ chatStorage' = << >>
  /\ cev' = "clear"
  /\ UNCHANGED <<activeTab, input, chatLoading, chatRequests, submits>>

NextChat ==
  \/ showChat
  \/ showInfo
  \/ \E text \in Inputs : setInput(text)
  \/ handleSubmit
  \/ \E i \in 1..MaxSubmits : chatResolved(i)
  \/ \E i \in 1..MaxSubmits : chatRejected(i)
  \/ handleClearHistory

(***************************************************************************)
(* Several adjust requests of one dataset and the order of their responses *)
(***************************************************************************)
InitOrder ==
  /\ adjustRequests = << >>
  /\ adjustResponses = {}
  /\ issued = 0
  /\ latestResponse = << >>

\* the rest of the waveform state, which the ordering model leaves alone
varsWRest == <<mode, baseData, aiData, tempUserData, draggingPeak, hasDragged, inflight,
               sends, ev, pressed>>

\* finishDrag up to its await, for a drag that ended with peak p at count c:
\* apiClient.adjustAmplitudes(datasetId, { adjustments: [{ id, count }] })
adjustSent(p, c) ==
  /\ issued < MaxIssued
  /\ issued' = issued + 1
  /\ adjustRequests' = Append(adjustRequests,
                              [seq |-> issued + 1, adj |-> [id |-> p, count |-> c]])
  /\ latestResponse' = << >>
  /\ UNCHANGED <<userData, localUserData, srvUser, adjustResponses>>

\* the backend handles the oldest request: it applies the adjustment and answers with
\* the user waveform it then holds
adjustServed ==
  /\ adjustRequests # << >>
  /\ LET r == Head(adjustRequests)
     IN /\ srvUser' = SrvApply(srvUser, r.adj)
        /\ adjustResponses' = adjustResponses \cup {[seq |-> r.seq, user |-> srvUser']}
        /\ latestResponse' = IF r.seq = issued THEN <<srvUser'>> ELSE latestResponse
  /\ adjustRequests' = Tail(adjustRequests)
  /\ UNCHANGED <<userData, localUserData, issued>>

\* a response arrives: onDataUpdate(updatedData) = updateWaveforms, then the Waveform's
\* sync effect
adjustArrived(r) ==
  /\ r \in adjustResponses
  /\ userData' = r.user
  /\ localUserData' = userData'
  /\ adjustResponses' = adjustResponses \ {r}
  /\ UNCHANGED <<srvUser, adjustRequests, issued, latestResponse>>

NextOrder ==
  \/ \E p \in Peaks : \E c \in 0..SampleCounts[p] : adjustSent(p, c)
  \/ adjustServed
  \/ \E r \in adjustResponses : adjustArrived(r)

(***************************************************************************)
(* The terrain page: useDataset feeding terrainData, and the ClusterList   *)
(***************************************************************************)
\* the hills of the terrain the backend returns (Reset and Flatten send nothing to
\* the backend)
ServerHills ==
  [h \in Hills |->
     [height |-> OriginalHeights[h], originalHeight |-> OriginalHeights[h],
      weight |-> Rat(1, 1)]]

\* the page renders the terrain view: not loading, no error
pageShowsTerrain == ~loading /\ error = << >> /\ terrain # << >>

\* getTerrain resolves in the mounted hook: setTerrain(terrainData), then the page's
\* effect on [terrain]: setTerrainData(terrain)
terrainEffect ==
  /\ getTerrainResolved
  /\ hills' = IF isMounted THEN ServerHills ELSE hills
  /\ heightData' = IF isMounted THEN generateHeightData(ServerHills) ELSE heightData
  /\ tev' = IF isMounted THEN "terrainEffect" ELSE tev
  /\ UNCHANGED <<draggingHillId, dragStateRef, dragEndRef, buttonDown, pendingAdjust>>

\* the ClusterList buttons of the rendered terrain view
pageResetCluster(id) == pageShowsTerrain /\ isMounted /\ onResetCluster(id) /\ UNCHANGED varsD
pageFlattenCluster(id) ==
  pageShowsTerrain /\ isMounted /\ onFlattenCluster(id) /\ UNCHANGED varsD

NextPage ==
  \/ \E h \in Hills : pageResetCluster(h)
  \/ \E h \in Hills : pageFlattenCluster(h)
  \/ terrainEffect
  \/ (\E st \in TerminalStatuses, m \in Messages : processingEnds(st, m)) /\ UNCHANGED varsT
  \/ intervalTick /\ UNCHANGED varsT
  \/ getStatusResolved /\ UNCHANGED varsT
  \/ getStatusRejected /\ UNCHANGED varsT
  \/ getTerrainRejected /\ UNCHANGED varsT
  \/ unmount /\ UNCHANGED varsT

(***************************************************************************)
(* Specifications                                                          *)
(***************************************************************************)
Init ==
  /\ InitWaveform /\ InitTerrain /\ InitSingle /\ InitDataset /\ InitGini /\ InitProject
  /\ InitFetch /\ InitChat /\ InitOrder

\* the three-waveform view alone
SpecWaveform == Init /\ [][NextWaveform /\ UNCHANGED <<varsT, varsS, varsD, varsG, varsP, varsF, varsC, varsO>>]_vars

\* the terrain view alone
SpecTerrain == Init /\ [][NextTerrain /\ UNCHANGED <<varsW, varsS, varsD, varsG, varsP, varsF, varsC, varsO>>]_vars

\* the reads of the mode-aware Waveform, for every input data
InitSingleInputs ==
  /\ InitWaveform /\ InitTerrain /\ InitDataset /\ InitGini /\ InitProject /\ InitFetch /\ InitChat
  /\ InitOrder
  /\ data \in PeakInputs
  /\ rendered = Read("none", "count", [p \in Peaks |-> << >>])

SpecSingle ==
  InitSingleInputs
  /\ [][NextSingle /\ UNCHANGED <<varsW, varsT, varsD, varsG, varsP, varsF, varsC, varsO>>]_vars

\* the Gini computation, for every sequence of magnitudes
InitGiniInputs ==
  /\ InitWaveform /\ InitTerrain /\ InitSingle /\ InitDataset /\ InitProject /\ InitFetch /\ InitChat
  /\ InitOrder
  /\ amplitudes \in SeqsUpTo(0..MaxAmp, MaxLen)
  /\ gini = << >>

SpecGini ==
  InitGiniInputs
  /\ [][calculateGini /\ UNCHANGED <<varsW, varsT, varsS, varsD, varsP, varsF, varsC, varsO>>]_vars

\* the 1-D projection, for every non-empty sequence of projected scalars
InitProjectInputs ==
  /\ InitWaveform /\ InitTerrain /\ InitSingle /\ InitDataset /\ InitGini /\ InitFetch /\ InitChat
  /\ InitOrder
  /\ positions \in SeqsUpTo(0..MaxAmp, MaxLen) \ {<< >>}
  /\ normalized = << >>

SpecProject ==
  InitProjectInputs
  /\ [][projectTo1d /\ UNCHANGED <<varsW, varsT, varsS, varsD, varsG, varsF, varsC, varsO>>]_vars

\* concurrent calls of fetchWithTimeout
SpecFetch ==
  Init /\ [][NextFetch /\ UNCHANGED <<varsW, varsT, varsS, varsD, varsG, varsP, varsC, varsO>>]_vars

\* the terrain page: the useDataset hook, the terrain effect and the ClusterList
SpecPage ==
  Init /\ [][NextPage /\ UNCHANGED <<varsW, varsS, varsG, varsP, varsF, varsC, varsO>>]_vars

\* adjust requests of one dataset and their responses
SpecOrder ==
  Init /\ [][NextOrder /\ UNCHANGED <<varsWRest, varsT, varsS, varsD, varsG, varsP, varsF, varsC>>]_vars

\* the ChatBox and the MetricsPanel's tabs
SpecChat ==
  Init /\ [][NextChat /\ UNCHANGED <<varsW, varsT, varsS, varsD, varsG, varsP, varsF, varsO>>]_vars

\* the same, where every chat request completes
SpecChatFair ==
  SpecChat /\ WF_varsC(\E i \in 1..MaxSubmits : chatResolved(i) \/ chatRejected(i))

\* the useDataset hook and the backend's processing
SpecDataset == Init /\ [][NextDataset /\ UNCHANGED <<varsW, varsT, varsS, varsG, varsP, varsF, varsC, varsO>>]_vars


(***************************************************************************)
(* Properties of the three-waveform view (SpecWaveform)                    *)
(***************************************************************************)
MouseKinds == {"down", "move", "up", "leave", "click", "sent"}

C2_CountWithinSampleCount ==
  /\ \A p \in Peaks : displayUserData[p].count \in 0..baseData[p].sampleCount
  /\ \A i \in 1..Len(inflight) :
       "count" \in DOMAIN inflight[i] =>
         inflight[i].count \in 0..baseData[inflight[i].id].sampleCount

\* a count-mode move to the top edge on the small peak: the pointer asks for
\* maxSampleCount, the peak gets its own sampleCount
C2_Witness ==
  /\ ev.kind = "move" /\ ev.y = 0 /\ mode = "count"
  /\ baseData[ev.peak].sampleCount < maxSampleCount
  /\ displayUserData[ev.peak].count = baseData[ev.peak].sampleCount

C4_OneDrivingField ==
  /\ \A i \in 1..Len(inflight) :
       ("count" \in DOMAIN inflight[i]) # ("weight" \in DOMAIN inflight[i])
  /\ ev.kind = "sent" =>
       /\ inflight # << >>
       /\ (mode = "count") = ("count" \in DOMAIN inflight[Len(inflight)])
       /\ (mode = "weight") = ("weight" \in DOMAIN inflight[Len(inflight)])

\* a weight-mode release that has just sent its request
C4_Witness == ev.kind = "sent" /\ mode = "weight" /\ inflight # << >>

\* the count a weight w (hundredths) corresponds to: round(w * sampleCount) clamped
CountOfWeight(w, sampleCount) == Max(0, Min(sampleCount, Round(w * sampleCount, 100)))

\* C5 as stated: after a count-mode move the dragged peak's weight is
\* count / sampleCount, after a weight-mode move its count is
\* round(weight * sampleCount) clamped to [0, sampleCount]
C5_Reconciled ==
  ev.kind = "move" =>
    LET peak == displayUserData[ev.peak]
        sc == baseData[ev.peak].sampleCount
    IN IF mode = "count" THEN peak.weight * sc = 100 * peak.count
       ELSE peak.count = CountOfWeight(peak.weight, sc)

\* C5 amended: a move writes only the field of the current mode; the other field
\* of the dragged peak stays as it was
C5_OtherFieldLeftAsIs ==
  [][ev'.kind = "move" =>
        IF mode = "count"
        THEN displayUserData'[ev'.peak].weight = displayUserData[ev'.peak].weight
        ELSE displayUserData'[ev'.peak].count = displayUserData[ev'.peak].count]_vars

\* a count-mode move after which the weight is not count / sampleCount
C5_Witness ==
  /\ ev.kind = "move" /\ mode = "count"
  /\ displayUserData[ev.peak].weight * baseData[ev.peak].sampleCount
       # 100 * displayUserData[ev.peak].count

\* C6: mouse-down, mouse-move and mouse-up events leave the base waveform, the AI
\* waveform and the parent's user waveform as they are; a move changes the
\* displayed user waveform at the dragged peak only, a mouse-down leaves the
\* optimistic drag state alone and a release at most discards it
C6_DragWritesOnlyDraggedPeak ==
  [][ev'.kind \in MouseKinds =>
        /\ baseData' = baseData /\ aiData' = aiData
        /\ userData' = userData /\ localUserData' = localUserData
        /\ ev'.kind = "move" =>
             \A p \in Peaks \ {ev'.peak} : displayUserData'[p] = displayUserData[p]
        /\ ev'.kind = "down" => tempUserData' = tempUserData
        /\ ev'.kind \in {"up", "leave", "click", "sent"} =>
             tempUserData' \in {tempUserData, << >>}]_vars

\* a move has changed the dragged peak while the AI waveform differs from the
\* displayed user waveform
C6_Witness ==
  /\ ev.kind = "move" /\ displayUserData # userData
  /\ \A p \in Peaks : displayUserData[p] # aiData[p]

(***************************************************************************)
(* Properties of the terrain view (SpecTerrain)                            *)
(***************************************************************************)
\* a <= b for the numbers a and b given as quotients
RatLeq(a, b) == a.n * b.d <= b.n * a.d

\* C7 as stated: every path that sets a weight bounds it below by the same minimum,
\* the one the weight-mode waveform drag enforces (minWeight hundredths)
C7_UniformMinimumWeight ==
  \A h \in Hills : RatLeq(Rat(minWeight, 100), hills[h].weight)

\* C8 as stated: once the button is released and no adjust request is awaited, no
\* hill is being dragged
C8_MouseUpEndsDrag ==
  (~buttonDown /\ pendingAdjust = << >>) => draggingHillId = NoHill

\* C9: every hill has 0 <= height <= 2 * originalHeight and 0 <= weight <= 2
C9_HillWithinBounds ==
  \A h \in Hills :
    /\ hills[h].height \in 0..(2 * hills[h].originalHeight)
    /\ RatLeq(Rat(0, 1), hills[h].weight)
    /\ RatLeq(hills[h].weight, Rat(2, 1))

\* a move that raised a hill to twice its original height
C9_Witness ==
  /\ tev = "move"
  /\ \E h \in Hills : hills[h].height = 2 * hills[h].originalHeight

\* C11 as stated: when the adjust request sent on release fails, the dragged hill
\* has again the height it had when the drag began (the height startDrag recorded)
C11_FailedAdjustReverts ==
  [][(tev' = "adjustFailed" /\ dragStateRef # << >>
        /\ \E i \in 1..Len(pendingAdjust) :
              pendingAdjust[i].hillId = dragStateRef[1].hillId) =>
       hills'[dragStateRef[1].hillId].height = dragStateRef[1].originalHeight]_vars

\* C10: every hill (all have originalHeight > 0) has weight = height / originalHeight
C10_WeightIsHeightRatio ==
  \A h \in Hills :
    hills[h].originalHeight > 0 =>
      hills[h].weight = Rat(hills[h].height, hills[h].originalHeight)

\* a hill flattened after it had been dragged to another height
C10_Witness ==
  /\ tev = "flatten"
  /\ \E h \in Hills : hills[h].height = 0
  /\ \E h \in Hills : hills[h].height \notin {0, hills[h].originalHeight}

\* C12: Reset sets one hill to height = originalHeight and weight = 1.0 and leaves
\* every other hill as it was; a second Reset of the same hill changes nothing
C12_ResetRestoresOneHill ==
  [][tev' = "reset" =>
       \E id \in Hills :
         /\ hills'[id].height = hills[id].originalHeight
         /\ hills'[id].weight = Rat(1, 1)
         /\ hills'[id].originalHeight = hills[id].originalHeight
         /\ \A o \in Hills \ {id} : hills'[o] = hills[o]
         /\ [hills' EXCEPT ![id] = resetHill(@)] = hills']_vars

\* a Reset has restored a hill while another hill is away from its original height
C12_Witness ==
  /\ tev = "reset"
  /\ \E h \in Hills : hills[h].height = hills[h].originalHeight /\ hills[h].weight = Rat(1, 1)
  /\ \E h \in Hills : hills[h].height # hills[h].originalHeight

(***************************************************************************)
(* Properties of the mode-aware Waveform's reads (SpecSingle)              *)
(***************************************************************************)
\* C13 as stated: every place that reads a peak's value uses selectedCount, or
\* sampleCount when the peak carries none, and weight, or 1.0 when it carries
\* none; the suggested path does so for the peaks that carry no suggestion
C13_DefaultsEverywhere ==
  \A p \in Peaks :
    /\ rendered.place \in {"path", "markers"} =>
         rendered.values[p] = IF rendered.mode = "count" THEN selectedCountOf(p)
                              ELSE weightOf(p)
    /\ (rendered.place = "request" /\ rendered.values[p] # << >>) =>
         rendered.values[p] = IF rendered.mode = "count" THEN selectedCountOf(p)
                              ELSE weightOf(p)
    /\ (rendered.place = "suggestedPath" /\ rendered.mode = "count"
          /\ data[p].suggestedCount = << >>) =>
         rendered.values[p] = selectedCountOf(p)
    /\ (rendered.place = "suggestedPath" /\ rendered.mode = "weight"
          /\ data[p].suggestedWeight = << >>) =>
         rendered.values[p] = weightOf(p)

C18_PollingEnds ==
  [][(status # << >> /\ status[1].status \in TerminalStatuses) =>
       (awaitingStatus' <= awaitingStatus /\ awaitingTerrain' <= awaitingTerrain)]_vars

(***************************************************************************)
(* Properties of the backend calculations (SpecGini, SpecProject)          *)
(***************************************************************************)
\* C15: for non-empty non-negative magnitudes with a positive sum the Gini value is
\* a number in [0, 1], and it is 0 when all magnitudes are equal
C15_GiniInUnitInterval ==
  (gini # << >> /\ amplitudes # << >> /\ Sum(amplitudes) > 0) =>
    /\ gini[1].kind = "value"
    /\ gini[1].d > 0
    /\ 0 <= gini[1].n /\ gini[1].n <= gini[1].d
    /\ (\A i \in DOMAIN amplitudes : amplitudes[i] = amplitudes[1]) => gini[1].n = 0

\* the Gini value of unequal magnitudes given in descending order
C15_Witness ==
  /\ gini # << >> /\ Len(amplitudes) = MaxLen
  /\ amplitudes[1] > amplitudes[MaxLen] /\ amplitudes[MaxLen] > 0
  /\ gini[1].kind = "value" /\ gini[1].n > 0

\* C16 as stated: for all-zero or empty magnitudes the Gini computation returns the
\* value 0.0
C16_GiniDegenerateIsZero ==
  (gini # << >> /\ Sum(amplitudes) = 0) =>
    (gini[1].kind = "value" /\ gini[1].n = 0 /\ gini[1].d > 0)

\* C17 as stated: every normalized position is a number in [0, 1], and clusters
\* that all project to the same scalar get evenly spaced positions ascending with
\* the cluster id
C17_PositionsInUnitInterval ==
  normalized # << >> =>
    LET x == normalized[1]
    IN /\ \A i \in DOMAIN x : x[i].d > 0 /\ 0 <= x[i].n /\ x[i].n <= x[i].d
       /\ SeqMin(positions) = SeqMax(positions) =>
            \A i \in DOMAIN x : \A j \in DOMAIN x :
              i < j => x[i].n * x[j].d < x[j].n * x[i].d

(***************************************************************************)
(* Click and drag in the three-waveform view (SpecWaveform)                *)
(***************************************************************************)
\* C19 as stated: a mouse-up that follows a mouse-down on a peak with no mouse-move
\* in between calls onClusterClick with that peak and sends no adjust request; a
\* mouse-up that follows a mouse-down and a mouse-move sends an adjust request
\* and does not call onClusterClick
C19_ClickOrDrag ==
  [][(pressed \in Peaks /\ pressed' = NoPeak) =>
       IF ~hasDragged
       THEN ev' = Ev("click", pressed, 0) /\ inflight' = inflight
       ELSE ev' = Ev("sent", pressed, 0) /\ Len(inflight') > Len(inflight)]_vars

(***************************************************************************)
(* Properties of fetchWithTimeout (SpecFetch)                              *)
(***************************************************************************)
\* C20: a completed call has returned the response or thrown an error; a call whose
\* timeout elapsed while it awaited the response is aborted and throws 'Request
\* timeout - please try again', and no other call throws that; a completed call has
\* no armed timer, so its controller is aborted only if the timeout elapsed before
\* it completed
C20_ResolvesOrRejects ==
  \A c \in Calls :
    /\ calls[c].pc = "done" => calls[c].result # "none" /\ calls[c].timer # "armed"
    /\ calls[c].timer = "fired" => calls[c].aborted /\ calls[c].result # "response"
    /\ (calls[c].pc = "done" /\ calls[c].timer = "fired") =>
         calls[c].result = "Request timeout - please try again"
    /\ (calls[c].pc = "done" /\ calls[c].timer = "cleared") =>
         (~calls[c].aborted /\ calls[c].result \in {"response", "TypeError"})

\* one call timed out, one returned its response and one failed on the network
C20_Witness ==
  /\ \E c \in Calls : calls[c].pc = "done" /\ calls[c].timer = "fired"
  /\ \E c \in Calls : calls[c].result = "response"
  /\ \E c \in Calls : calls[c].result = "TypeError"

(***************************************************************************)
(* Properties of the ChatBox (SpecChat, SpecChatFair)                      *)
(***************************************************************************)
\* C21: a ChatBox mounted again shows exactly the messages that were displayed when
\* it was unmounted, in the same order; Clear empties the displayed list and the
\* stored history, so that the next mount shows no messages
C21_HistoryPersists ==
  [][/\ cev' = "mount" => messages' = messages
     /\ cev' = "clear" => (messages' = << >> /\ chatStorage' = << >>)]_vars

\* a ChatBox mounted again with a question and its reply in the history
C21_Witness ==
  /\ cev = "mount"
  /\ messages = <<Message("user", "q"), Message("assistant", "reply")>>

\* the persisted chat history
persisted == IF chatStorage # << >> THEN parse(chatStorage[1]) ELSE << >>

\* C28 as stated: at most one chat request is in flight, an ignored submit leaves
\* the message list as it is, and no two neighbours in the list have the same role
C28_OneRequestAlternating ==
  /\ [](Len(chatRequests) <= 1)
  /\ [](\A i \in 1..Len(messages) - 1 : messages[i].role # messages[i + 1].role)
  /\ [][cev' = "submitIgnored" => (messages' = messages /\ chatRequests' = chatRequests)]_vars

\* C29 as stated: every accepted submission leads to a state where no request is
\* pending, the ChatBox is not loading and the persisted history ends with an
\* assistant message
C29_ReplyPersisted ==
  (cev = "submitted") ~>
    (/\ chatRequests = << >>
     /\ ~chatLoading
     /\ persisted # << >>
     /\ persisted[Len(persisted)].role = "assistant")

(***************************************************************************)
(* useDataset after its cleanup (SpecDataset)                              *)
(***************************************************************************)
\* C26: once the effect has been cleaned up, no response changes status, terrain,
\* loading or error, and no status or terrain request is started
C26_CleanupStopsHook ==
  [][~isMounted =>
       /\ status' = status /\ terrain' = terrain
       /\ loading' = loading /\ error' = error
       /\ awaitingStatus' <= awaitingStatus
       /\ awaitingTerrain' <= awaitingTerrain
       /\ pollCount' = pollCount]_vars

\* a terrain response that arrived after the cleanup and was ignored
C26_Witness ==
  /\ dev = "ignored" /\ ~isMounted
  /\ status # << >> /\ status[1].status = "completed" /\ terrain = << >>
  /\ awaitingTerrain = 0 /\ error = << >>

(***************************************************************************)
(* Properties of the terrain page (SpecPage)                               *)
(***************************************************************************)
\* C22 as stated: no step of useDataset (a poll, a response, the terrain effect it
\* feeds) changes a hill of terrainData once the terrain view is shown
C22_PollingKeepsLocalEdits ==
  [][(pageShowsTerrain /\ varsD' # varsD) => hills' = hills]_vars

(***************************************************************************)
(* A terrain drag and its adjust request (SpecTerrain)                     *)
(***************************************************************************)
\* C23 as stated: while the adjust request of a drag is pending no mouse move changes
\* a hill, so the request's weight is the weight of the dragged hill when the request
\* completes, and a committing mouse-up sends exactly one request
C23_SentWeightIsDisplayed ==
  [][/\ (pendingAdjust # << >> /\ tev' = "move") => hills' = hills
     /\ (tev' = "up" /\ buttonDown /\ mouseUpCommits) =>
          Len(pendingAdjust') = Len(pendingAdjust) + 1
     /\ \A i \in 1..Len(pendingAdjust) :
          (tev' \in {"settled", "adjustFailed"} /\ pendingAdjust' = Remove(pendingAdjust, i)
             /\ tev \in {"up", "move"}) =>
            hills[pendingAdjust[i].hillId].weight = pendingAdjust[i].weight]_vars

(***************************************************************************)
(* Requests of one waveform drag gesture (SpecWaveform)                    *)
(***************************************************************************)
\* C24 as stated: the event that ends a drag gesture (mouse-up over the svg, mouse-up
\* outside it, mouse-leave) issues exactly one adjust request
C24_OneRequestPerGesture ==
  [][(draggingPeak # NoPeak /\ hasDragged /\ ev'.kind = "sent" /\ sends' = sends + 1) =>
       Len(inflight') = Len(inflight) + 1]_vars

(***************************************************************************)
(* Responses of several adjust requests (SpecOrder)                        *)
(***************************************************************************)
\* C25 as stated: once every response has arrived, the user waveform displayed is the
\* one of the response to the most recently issued request
C25_LatestResponseShown ==
  (issued > 0 /\ adjustRequests = << >> /\ adjustResponses = {}) =>
    (latestResponse # << >> /\ userData = latestResponse[1])

(***************************************************************************)
(* heightData and the hills of one terrainData (SpecTerrain)               *)
(***************************************************************************)
\* C27 as stated: heightData is the grid generated from the hills of the same
\* terrainData, after a drag move, a Reset and a Flatten alike
C27_HeightDataFollowsHills == heightData = generateHeightData(hills)

====
